---- MODULE Spec2Model ----
(***************************************************************************)
(* The scheduling orchestrator of SimpleHub (server/src/scheduler.js) and  *)
(* the HTTP handlers and the start-up code that drive it (routes.js and    *)
(* index.js, kept in src/unnamed/part_000).                                *)
(*                                                                         *)
(* JavaScript runs one callback at a time and an async function gives up   *)
(* control only at an await.  Every action below is one such run: the      *)
(* continuation of an await up to the next await that really suspends (a   *)
(* store operation, a site check, a pacing delay).  The store operation    *)
(* that the run ends with is performed when it is issued; its result is    *)
(* kept in the task and used by the action that resumes the task, so any   *)
(* other task may run between a read and the code that acts on the read.   *)
(***************************************************************************)
EXTENDS Integers, Sequences, FiniteSets, TLC

(* ------------------------------ bounds --------------------------------- *)
MaxSites == 2
MaxCategories == 1
MaxOps == 2
MaxDeepOps == 3
MaxConcurrent == 2
MaxFireOps == 1
MaxFirings == 1
MaxTierFirings == 2
MaxConfigOps == 2

SiteIds == 1..MaxSites
CategoryIds == 1..MaxCategories

(* --------------------------- nullable strings -------------------------- *)
\* A JavaScript value that is null or a string; a string is the sequence of
\* its characters.
Null == [null |-> TRUE, s |-> <<>>]
Str(chars) == [null |-> FALSE, s |-> chars]

RECURSIVE TrimStart(_)
TrimStart(s) == IF s # <<>> /\ Head(s) = " " THEN TrimStart(Tail(s)) ELSE s

RECURSIVE TrimEnd(_)
TrimEnd(s) == IF s # <<>> /\ s[Len(s)] = " " THEN TrimEnd(SubSeq(s, 1, Len(s) - 1)) ELSE s

\* String.prototype.trim
Trim(s) == TrimEnd(TrimStart(s))

\* !v for a nullable string: null and "" are falsy
Falsy(v) == v.null \/ v.s = <<>>

\* !x.scheduleCron || !x.scheduleCron.trim()
NoSchedule(v) == Falsy(v) \/ Trim(v.s) = <<>>

RECURSIVE Fields(_, _, _)
Fields(s, cur, acc) ==
    IF s = <<>> THEN (IF cur = <<>> THEN acc ELSE Append(acc, cur))
    ELSE IF Head(s) = " "
         THEN Fields(Tail(s), <<>>, IF cur = <<>> THEN acc ELSE Append(acc, cur))
         ELSE Fields(Tail(s), Append(cur, Head(s)), acc)

CronChars == {"0", "1", "3", "4", "9", "*"}

\* cron.schedule throws on an expression that is not 5 (or 6) fields of
\* cron tokens
CronAccepts(s) ==
    LET f == Fields(s, <<>>, <<>>)
    IN  /\ Len(f) \in {5, 6}
        /\ \A i \in 1..Len(f) : \A j \in 1..Len(f[i]) : f[i][j] \in CronChars

Daily == Str(<<"0", " ", "9", " ", "*", " ", "*", " ", "*">>)
Empty == Str(<<>>)
Spaces == Str(<<" ", " ">>)
Malformed == Str(<<"x">>)

(* ------------------------------- state --------------------------------- *)
VARIABLES
    siteTable,          \* store: the Site table
    categoryTable,      \* store: the Category table
    configTable,        \* store: the ScheduleConfig table, in insertion order
    jobs,               \* scheduler.js: const jobs = new Map()
    categoryJobs,       \* scheduler.js: const categoryJobs = new Map()
    globalScheduleJob,  \* scheduler.js: let globalScheduleJob = null
    cronJobs,           \* the node-cron tasks that are started and not stopped
    stoppedJobs,        \* the node-cron tasks stop() has been called on (history)
    nextJobId,          \* identity of the next task cron.schedule creates
    tasks,              \* the runs of start-up and of the HTTP handlers
    firings,            \* the runs of fired job callbacks
    last                \* what the latest action completed (history)

vars == <<siteTable, categoryTable, configTable, jobs, categoryJobs,
          globalScheduleJob, cronJobs, stoppedJobs, nextJobId, tasks, firings, last>>

store == <<siteTable, categoryTable, configTable>>

TaskIds == 0..MaxDeepOps
FiringIds == 1..MaxTierFirings

(* ------------------------------- store --------------------------------- *)
NoSite == [id |-> 0, scheduleCron |-> Null, pinned |-> FALSE,
           excludeFromBatch |-> FALSE, categoryId |-> 0]
NoCategory == [id |-> 0, scheduleCron |-> Null]
NoConfig == [id |-> 0, enabled |-> FALSE, overrideIndividual |-> FALSE,
             hour |-> 0, minute |-> 0, interval |-> 0, lastRun |-> 0]

\* rows: status is "unused" (id never given out), "stored" or "deleted"
SiteRow(status, rec) == [status |-> status, rec |-> rec]

StoredSites(tbl) == {i \in SiteIds : tbl[i].status = "stored"}
StoredCategories(tbl) == {i \in CategoryIds : tbl[i].status = "stored"}

RECURSIVE RowsFrom(_, _, _)
RowsFrom(tbl, i, n) ==
    IF i > n THEN <<>>
    ELSE (IF tbl[i].status = "stored" THEN <<tbl[i].rec>> ELSE <<>>)
         \o RowsFrom(tbl, i + 1, n)

\* prisma.site.findMany(): the stored sites, in insertion order
FindManySites(tbl) == RowsFrom(tbl, 1, MaxSites)

\* prisma.category.findMany({ include: { sites: true } })
FindManyCategories(tbl) == RowsFrom(tbl, 1, MaxCategories)

\* prisma.scheduleConfig.findFirst()
FindFirstConfig(tbl) == IF tbl = <<>> THEN NoConfig ELSE tbl[1]

\* prisma.scheduleConfig.findUnique({ where: { id } })
FindUniqueConfig(tbl, id) == IF id \in 1..Len(tbl) THEN tbl[id] ELSE NoConfig

\* prisma.site.findUnique({ where: { id } })
FindUniqueSite(tbl, id) ==
    IF id \in SiteIds /\ tbl[id].status = "stored" THEN tbl[id].rec ELSE NoSite

\* prisma.category.findUnique({ where: { id }, include: { sites: true } })
FindUniqueCategory(tbl, id) ==
    IF id \in CategoryIds /\ tbl[id].status = "stored" THEN tbl[id].rec ELSE NoCategory

\* the sites relation of a category row
CategorySites(stbl, cid) == SelectSeq(FindManySites(stbl), LAMBDA s : s.categoryId = cid)

UnusedIds(tbl, ids) == {i \in ids : tbl[i].status = "unused"}
MinOf(S) == CHOOSE x \in S : \A y \in S : x <= y

(* ----------------------------- registries ------------------------------ *)
\* The registries as one value, so that the statements of one run can be
\* applied one after the other.
Reg == [jobs |-> jobs, categoryJobs |-> categoryJobs,
        globalScheduleJob |-> globalScheduleJob,
        cronJobs |-> cronJobs, stoppedJobs |-> stoppedJobs, nextJobId |-> nextJobId]

SetReg(R) ==
    /\ jobs' = R.jobs
    /\ categoryJobs' = R.categoryJobs
    /\ globalScheduleJob' = R.globalScheduleJob
    /\ cronJobs' = R.cronJobs
    /\ stoppedJobs' = R.stoppedJobs
    /\ nextJobId' = R.nextJobId

\* a node-cron task with what its callback closes over: the site of a site
\* job, the configId and the config.interval of a global job
Job(id, kind, key, configId, interval, site) ==
    [id |-> id, kind |-> kind, key |-> key, configId |-> configId, interval |-> interval,
     site |-> site]

Running(R, id) == \E j \in R.cronJobs : j.id = id

JobStopMutant(R, id) == [R EXCEPT !.stoppedJobs = @ \cup {id}]

\* job.stop()
JobStop(R, id) ==
    [R EXCEPT !.cronJobs = {j \in @ : j.id # id}, !.stoppedJobs = @ \cup {id}]

\* cron.schedule(expr, callback, { scheduled: true }) followed by job.start()
CronSchedule(R, kind, key, configId, interval, site) ==
    [R EXCEPT !.cronJobs = @ \cup {Job(R.nextJobId, kind, key, configId, interval, site)},
              !.nextJobId = @ + 1]

ScheduleSiteStopOldMutant(R, key) ==
    IF R.jobs[key] # 0 THEN [R EXCEPT !.jobs[key] = 0] ELSE R

\* scheduleSite, up to its await: if (jobs.has(key)) { stop; delete }
ScheduleSiteStopOld(R, key) ==
    IF R.jobs[key] # 0
    THEN [JobStop(R, R.jobs[key]) EXCEPT !.jobs[key] = 0]
    ELSE R

\* scheduleSite: the global test made on the config read before the await
GlobalOverride(gc) == gc.id # 0 /\ gc.enabled /\ gc.overrideIndividual

\* scheduleSite after its await: "returned" or "threw"
ScheduleSiteOutcome(site, gc) ==
    IF GlobalOverride(gc) \/ NoSchedule(site.scheduleCron) THEN "returned"
    ELSE IF CronAccepts(site.scheduleCron.s) THEN "returned" ELSE "threw"

\* scheduleSite after its await: the registries it leaves
ScheduleSiteInstall(R, site, gc) ==
    IF GlobalOverride(gc) THEN R
    ELSE IF NoSchedule(site.scheduleCron) THEN R
    ELSE IF ~CronAccepts(site.scheduleCron.s) THEN R
    ELSE [CronSchedule(R, "site", site.id, 0, 0, site) EXCEPT !.jobs[site.id] = R.nextJobId]

RECURSIVE StopEach(_, _)
StopEach(R, keys) ==
    IF keys = {} THEN R
    ELSE LET k == MinOf(keys)
         IN  StopEach([JobStop(R, R.jobs[k]) EXCEPT !.jobs[k] = 0], keys \ {k})

StopEveryJobMutant(R) ==
    [R EXCEPT !.jobs = [k \in SiteIds |-> 0], !.categoryJobs = [k \in CategoryIds |-> 0],
              !.cronJobs = {j \in @ : j.kind = "global"}]

StopAllIndividualJobsMutant(R) == R

StopAllButFirstMutant(R) ==
    LET keys == {k \in SiteIds : R.jobs[k] # 0}
    IN  IF keys = {} THEN R ELSE StopEach(R, keys \ {MinOf(keys)})

\* stopAllIndividualJobs
StopAllIndividualJobs(R) == StopEach(R, {k \in SiteIds : R.jobs[k] # 0})

\* stopAllIndividualJobs: const count = jobs.size, logged and returned
StopAllCount(R) == Cardinality({k \in SiteIds : R.jobs[k] # 0})

\* scheduleCategory: "returned" or "threw"
ScheduleCategoryOutcome(category) ==
    IF NoSchedule(category.scheduleCron) \/ CronAccepts(category.scheduleCron.s)
    THEN "returned" ELSE "threw"

ScheduleCategoryKeepOldMutant(R, category) ==
    IF NoSchedule(category.scheduleCron) \/ ~CronAccepts(category.scheduleCron.s)
    THEN [R EXCEPT !.categoryJobs[category.id] = 0]
    ELSE [CronSchedule(R, "category", category.id, 0, 0, NoSite)
             EXCEPT !.categoryJobs[category.id] = R.nextJobId]

\* scheduleCategory (it has no await)
ScheduleCategory(R, category) ==
    LET key == category.id
        R1 == IF R.categoryJobs[key] # 0
              THEN [JobStop(R, R.categoryJobs[key]) EXCEPT !.categoryJobs[key] = 0]
              ELSE R
    IN  IF NoSchedule(category.scheduleCron) THEN R1
        ELSE IF ~CronAccepts(category.scheduleCron.s) THEN R1
        ELSE [CronSchedule(R1, "category", key, 0, 0, NoSite) EXCEPT !.categoryJobs[key] = R1.nextJobId]

\* scheduleAllCategories after its read: the loop over the categories, which
\* stops at the first scheduleCategory that throws
RECURSIVE ScheduleCategories(_, _)
ScheduleCategories(R, cats) ==
    IF cats = <<>> THEN [R |-> R, out |-> "returned"]
    ELSE IF ScheduleCategoryOutcome(Head(cats)) = "threw"
         THEN [R |-> ScheduleCategory(R, Head(cats)), out |-> "threw"]
         ELSE ScheduleCategories(ScheduleCategory(R, Head(cats)), Tail(cats))

\* scheduleGlobalTask: if (globalScheduleJob) { stop; = null }
StopGlobalJob(R) ==
    IF R.globalScheduleJob # 0
    THEN [JobStop(R, R.globalScheduleJob) EXCEPT !.globalScheduleJob = 0]
    ELSE R

\* scheduleGlobalTask: globalScheduleJob = cron.schedule(...); .start()
InstallGlobalJob(R, config) ==
    [CronSchedule(R, "global", 0, config.id, config.interval, NoSite)
        EXCEPT !.globalScheduleJob = R.nextJobId]

\* module.exports of scheduler.js
SchedulerExports == {"scheduleAll", "onSiteUpdated", "scheduleGlobalTask",
                     "scheduleCategory", "scheduleAllCategories"}

(* -------------------------------- tasks -------------------------------- *)
\* A task is one run of the start-up code (task 0) or of an HTTP handler,
\* with the scheduler functions it calls.  pc names the await it waits at.
ZeroJobs == [k \in SiteIds |-> 0]

IdleTask == [op |-> "idle", pc |-> "-", site |-> NoSite, resched |-> FALSE,
             cat |-> NoCategory, cfg |-> NoConfig, found |-> NoConfig,
             gc |-> NoConfig, list |-> <<>>, cats |-> <<>>, ret |-> "-",
             pre |-> ZeroJobs, ssAlone |-> FALSE, sgtAlone |-> FALSE,
             catPre |-> <<>>, catRunning |-> {}, gPre |-> 0]
DoneTask == [IdleTask EXCEPT !.op = "done"]
ExitedTask == [IdleTask EXCEPT !.op = "exited"]

EmptyReg == [jobs |-> ZeroJobs, categoryJobs |-> [k \in CategoryIds |-> 0],
             globalScheduleJob |-> 0, cronJobs |-> {}, stoppedJobs |-> {}, nextJobId |-> 1]

\* history: the calls that returned or threw in the latest action
LastNone == [ss |-> "none", ssSite |-> NoSite, ssGc |-> NoConfig,
             ssPre |-> ZeroJobs, ssPost |-> ZeroJobs, ssRunning |-> {},
             ssAlone |-> FALSE,
             sgt |-> "none", sgtCfg |-> NoConfig, sgtPre |-> ZeroJobs,
             sgtAlone |-> FALSE, sa |-> "none", saAlone |-> FALSE,
             op |-> "none", opOut |-> "none", opCat |-> 0,
             ev |-> "none", check |-> NoSite, checkBy |-> "none", checkOverride |-> FALSE,
             skipNotification |-> FALSE, isManual |-> FALSE,
             candidates |-> <<>>, allSites |-> <<>>,
             batch |-> "none", sites |-> <<>>, calls |-> <<>>, outs |-> <<>>,
             failed |-> <<>>,
             kind |-> "none", job |-> 0, captured |-> NoSite, found |-> FALSE,
             latest |-> NoConfig, interval |-> 0, read |-> <<>>, changes |-> <<>>,
             results |-> <<>>, delays |-> <<>>, notified |-> 0, lastRunWrites |-> 0,
             caught |-> FALSE, sgtCatPre |-> <<>>, sgtCatRunning |-> {},
             opCron |-> Null, ssRet |-> "-", opBody |-> NoConfig,
             notifyThrew |-> FALSE, h |-> 0, m |-> 0, cron |-> Null,
             opCatPre |-> 0, gPre |-> 0,
             saj |-> "none", sajPre |-> EmptyReg, sajPost |-> EmptyReg, sajCount |-> 0]

Res(T, R, E) == [T |-> T, R |-> R, E |-> E]

\* the handler (or the floating scheduleSite of onSiteUpdated) is over
FinishOp(T, R, E, out) == Res(DoneTask, R, [E EXCEPT !.op = T.op, !.opOut = out])

\* scheduleSite(site) up to its await on prisma.scheduleConfig.findFirst()
EnterScheduleSite(T, R, E, site) ==
    Res([T EXCEPT !.pc = "scheduleSite", !.site = site,
                  !.gc = FindFirstConfig(configTable),
                  !.pre = R.jobs, !.ssAlone = TRUE],
        ScheduleSiteStopOld(R, site.id), E)

\* scheduleGlobalTask returns or throws: both of its callers end with it
\* (updateScheduleConfigHandler answers, buildServer returns the server)
ReturnSGT(T, R, E, out) ==
    FinishOp(T, R, [E EXCEPT !.sgt = out, !.sgtCfg = T.cfg, !.gPre = T.gPre,
                             !.sgtAlone = T.sgtAlone, !.sgtCatPre = T.catPre,
                             !.sgtCatRunning = T.catRunning], out)

\* scheduleAll returns or throws.  The PATCH handler answers; buildServer
\* goes on to read the global config, or rejects and the process exits.
ReturnSA(T, R, E, out) ==
    LET E1 == [E EXCEPT !.sa = out, !.saAlone = T.sgtAlone, !.gPre = T.gPre]
    IN  IF T.op = "startup"
        THEN IF out = "threw"
             THEN Res(ExitedTask, EmptyReg, [E1 EXCEPT !.op = "startup", !.opOut = "threw"])
             ELSE Res([T EXCEPT !.pc = "startupConfig",
                                !.found = FindFirstConfig(configTable)], R, E1)
        ELSE FinishOp(T, R, E1, out)

\* the end of "for (const site of allSites) await scheduleSite(site)"
AfterLoop(T, R, E) ==
    IF T.ret = "scheduleGlobalTask"
    THEN IF T.cfg.id = 0 \/ ~T.cfg.enabled
         THEN ReturnSGT(T, R, E, "returned")
         ELSE ReturnSGT(T, InstallGlobalJob(R, T.cfg), E, "returned")
    ELSE Res([T EXCEPT !.pc = "scheduleAllCategories",
                       !.cats = FindManyCategories(categoryTable)], R, E)

\* one turn of that loop: T.list holds the sites still to schedule
LoopStep(T, R, E) ==
    IF T.list # <<>>
    THEN EnterScheduleSite([T EXCEPT !.list = Tail(@)], R, E, Head(T.list))
    ELSE AfterLoop(T, R, E)

\* scheduleGlobalTask(config) up to its first await, or to its end
EnterSGT(T, R, E, config) ==
    LET R1 == StopGlobalJob(R)
        T1 == [T EXCEPT !.cfg = config, !.sgtAlone = TRUE, !.ret = "scheduleGlobalTask",
                        !.catPre = R.categoryJobs, !.gPre = R.globalScheduleJob,
                        !.catRunning = {j.id : j \in {c \in R.cronJobs : c.kind = "category"}}]
        E1 == [E EXCEPT !.sgtPre = R.jobs, !.saj = "returned", !.sajPre = R1,
                        !.sajPost = StopAllIndividualJobs(R1),
                        !.sajCount = StopAllCount(R1)]
    IN  IF config.id = 0 \/ ~config.enabled
        THEN Res([T1 EXCEPT !.pc = "loopSites", !.list = FindManySites(siteTable)], R1, E)
        ELSE IF config.overrideIndividual
        THEN ReturnSGT(T1, InstallGlobalJob(StopAllIndividualJobs(R1), config), E1, "returned")
        ELSE Res([T1 EXCEPT !.pc = "loopSites", !.list = FindManySites(siteTable)], R1, E)

\* scheduleAll up to its await on prisma.site.findMany()
EnterScheduleAll(T, R, E) ==
    Res([T EXCEPT !.pc = "loopSites", !.list = FindManySites(siteTable),
                  !.ret = "scheduleAll", !.sgtAlone = TRUE,
                  !.gPre = R.globalScheduleJob], R, E)

\* the other tasks have been interleaved with
Commit(t, res) ==
    /\ tasks' = [u \in TaskIds |->
                    IF u = t THEN res.T
                    ELSE [tasks[u] EXCEPT !.ssAlone = FALSE, !.sgtAlone = FALSE]]
    /\ SetReg(res.R)
    /\ last' = res.E

Listening == tasks[0].op = "done"

InFlight == {u \in TaskIds : tasks[u].op \notin {"idle", "done", "exited"}}

\* the next unused task, while fewer than n handler runs have been started
\* and fewer than MaxConcurrent are in progress
FreeTask(t, n) ==
    /\ Listening
    /\ t \in 1..n
    /\ tasks[t].op = "idle"
    /\ \A u \in 1..(t - 1) : tasks[u].op # "idle"
    /\ Cardinality(InFlight) < MaxConcurrent

(* ------------------------------ start-up ------------------------------- *)
\* buildServer: await scheduleAll(fastify)
Startup ==
    /\ tasks[0].op = "idle"
    /\ Commit(0, EnterScheduleAll([IdleTask EXCEPT !.op = "startup"], Reg, LastNone))
    /\ UNCHANGED <<store, firings>>

\* buildServer: if (scheduleConfig) await scheduleGlobalTask(scheduleConfig)
StartupConfig ==
    /\ tasks[0].pc = "startupConfig"
    /\ Commit(0, IF tasks[0].found.id # 0
                 THEN EnterSGT(tasks[0], Reg, LastNone, tasks[0].found)
                 ELSE FinishOp(tasks[0], Reg, LastNone, "returned"))
    /\ UNCHANGED <<store, firings>>

(* ------------------------ scheduler continuations ---------------------- *)
\* scheduleAll / scheduleGlobalTask resumed with the site list
LoopSites(t) ==
    /\ tasks[t].pc = "loopSites"
    /\ Commit(t, LoopStep(tasks[t], Reg, LastNone))
    /\ UNCHANGED <<store, firings>>

\* scheduleSite resumed with the global config, and then its caller
ScheduleSiteResume(t) ==
    /\ tasks[t].pc = "scheduleSite"
    /\ LET T == tasks[t]
           out == ScheduleSiteOutcome(T.site, T.gc)
           R1 == ScheduleSiteInstall(Reg, T.site, T.gc)
           E1 == [LastNone EXCEPT !.ss = out, !.ssSite = T.site, !.ssGc = T.gc,
                                  !.ssPre = T.pre, !.ssAlone = T.ssAlone,
                                  !.ssRet = T.ret,
                                  !.ssPost = R1.jobs,
                                  !.ssRunning = {j.id : j \in R1.cronJobs}]
           T1 == [T EXCEPT !.site = NoSite, !.gc = NoConfig, !.pre = ZeroJobs,
                           !.ssAlone = FALSE]
       IN  Commit(t, IF T.ret = "onSiteUpdated" THEN FinishOp(T1, R1, E1, out)
                     ELSE IF out = "returned" THEN LoopStep(T1, R1, E1)
                     ELSE IF T.ret = "scheduleGlobalTask" THEN ReturnSGT(T1, R1, E1, out)
                     ELSE ReturnSA(T1, R1, E1, out))
    /\ UNCHANGED <<store, firings>>

\* scheduleAllCategories resumed with the categories; scheduleAll returns
ScheduleAllCategories(t) ==
    /\ tasks[t].pc = "scheduleAllCategories"
    /\ LET r == ScheduleCategories(Reg, tasks[t].cats)
       IN  Commit(t, ReturnSA([tasks[t] EXCEPT !.cats = <<>>], r.R, LastNone, r.out))
    /\ UNCHANGED <<store, firings>>

(* ------------------------------- firings ------------------------------- *)
\* A firing is one run of the callback of a started job.  It reads the
\* store and calls checkSite and the notifier; it never touches the
\* registries.  calls and outs log the checks it started and their results.
\* job, configId, interval and captured are what the callback closes over;
\* read is the list a batch read from the store and sites the list it checks;
\* results, delays, notified and lastRunWrites log what the run has done.
IdleFiring == [kind |-> "idle", pc |-> "-", key |-> 0, job |-> 0, configId |-> 0,
               interval |-> 0, captured |-> NoSite, found |-> FALSE,
               latest |-> NoConfig, read |-> <<>>,
               sites |-> <<>>, i |-> 0, changes |-> <<>>, failed |-> <<>>,
               calls |-> <<>>, outs |-> <<>>, results |-> <<>>, delays |-> <<>>,
               notified |-> 0, lastRunWrites |-> 0, skip |-> FALSE,
               notifyThrew |-> FALSE]
NeverDoneMutant == [IdleFiring EXCEPT !.kind = "global", !.pc = "returning"]

DoneFiring == [IdleFiring EXCEPT !.kind = "done"]

(* ------------------------------ handlers ------------------------------- *)
\* POST /api/sites: await prisma.site.create({ data })
PostSite(t, body) ==
    /\ UnusedIds(siteTable, SiteIds) # {}
    /\ body.categoryId \in StoredCategories(categoryTable) \cup {0}
    /\ LET id == MinOf(UnusedIds(siteTable, SiteIds))
           site == [body EXCEPT !.id = id]
       IN  /\ siteTable' = [siteTable EXCEPT ![id] = SiteRow("stored", site)]
           /\ Commit(t, Res([IdleTask EXCEPT !.op = "postSite", !.pc = "siteCreated",
                                             !.site = site], Reg, LastNone))
    /\ UNCHANGED <<categoryTable, configTable, firings>>

\* POST /api/sites resumed: onSiteUpdated(site, fastify); return rest
SiteCreated(t) ==
    /\ tasks[t].pc = "siteCreated"
    /\ Commit(t, EnterScheduleSite([tasks[t] EXCEPT !.ret = "onSiteUpdated"],
                                   Reg, LastNone, tasks[t].site))
    /\ UNCHANGED <<store, firings>>

\* the data object PATCH /api/sites/:id builds from the request body
ApplySitePatch(rec, data) ==
    [rec EXCEPT
        !.scheduleCron = IF "scheduleCron" \in data.has THEN data.scheduleCron ELSE @,
        !.pinned = IF "pinned" \in data.has THEN data.pinned ELSE @,
        !.excludeFromBatch = IF "excludeFromBatch" \in data.has
                             THEN data.excludeFromBatch ELSE @,
        !.categoryId = IF "categoryId" \in data.has THEN data.categoryId ELSE @]

\* PATCH /api/sites/:id: await prisma.site.update({ where: { id }, data })
PatchSite(t, id, data) ==
    /\ id \in StoredSites(siteTable)
    /\ "categoryId" \in data.has => data.categoryId \in StoredCategories(categoryTable) \cup {0}
    /\ LET site == ApplySitePatch(siteTable[id].rec, data)
       IN  /\ siteTable' = [siteTable EXCEPT ![id].rec = site]
           /\ Commit(t, Res([IdleTask EXCEPT
                                !.op = "patchSite", !.pc = "siteUpdated", !.site = site,
                                !.resched = ("categoryId" \in data.has
                                             \/ "scheduleCron" \in data.has)],
                            Reg, LastNone))
    /\ UNCHANGED <<categoryTable, configTable, firings>>

\* PATCH /api/sites/:id resumed: await scheduleAll(fastify) if the category
\* or the schedule is in the data, else onSiteUpdated(site, fastify)
SiteUpdated(t) ==
    /\ tasks[t].pc = "siteUpdated"
    /\ Commit(t, IF tasks[t].resched
                 THEN EnterScheduleAll([tasks[t] EXCEPT !.site = NoSite], Reg, LastNone)
                 ELSE EnterScheduleSite([tasks[t] EXCEPT !.ret = "onSiteUpdated"],
                                        Reg, LastNone, tasks[t].site))
    /\ UNCHANGED <<store, firings>>

\* DELETE /api/sites/:id: the diffs, the snapshots and the site are deleted;
\* the scheduler is not called
DeleteSite(t, id) ==
    /\ id \in StoredSites(siteTable)
    /\ siteTable' = [siteTable EXCEPT ![id] = SiteRow("deleted", NoSite)]
    /\ Commit(t, FinishOp([IdleTask EXCEPT !.op = "deleteSite"], Reg, LastNone, "returned"))
    /\ UNCHANGED <<categoryTable, configTable, firings>>

\* POST /api/categories: await prisma.category.create({ data })
PostCategory(t, cron) ==
    /\ UnusedIds(categoryTable, CategoryIds) # {}
    /\ LET id == MinOf(UnusedIds(categoryTable, CategoryIds))
           category == [id |-> id, scheduleCron |-> cron]
       IN  /\ categoryTable' = [categoryTable EXCEPT ![id] = SiteRow("stored", category)]
           /\ Commit(t, Res([IdleTask EXCEPT !.op = "postCategory",
                                             !.pc = "categoryWritten", !.cat = category],
                            Reg, LastNone))
    /\ UNCHANGED <<siteTable, configTable, firings>>

\* PATCH /api/categories/:id: await prisma.category.update({ where, data })
PatchCategory(t, id, hasCron, cron) ==
    /\ id \in StoredCategories(categoryTable)
    /\ LET category == [categoryTable[id].rec EXCEPT
                            !.scheduleCron = IF hasCron THEN cron ELSE @]
       IN  /\ categoryTable' = [categoryTable EXCEPT ![id].rec = category]
           /\ Commit(t, Res([IdleTask EXCEPT !.op = "patchCategory",
                                             !.pc = "categoryWritten", !.cat = category],
                            Reg, LastNone))
    /\ UNCHANGED <<siteTable, configTable, firings>>

\* POST and PATCH /api/categories resumed: await scheduleCategory(category)
CategoryWritten(t) ==
    /\ tasks[t].pc = "categoryWritten"
    /\ Commit(t, FinishOp(tasks[t], ScheduleCategory(Reg, tasks[t].cat),
                          [LastNone EXCEPT !.opCat = tasks[t].cat.id,
                                           !.opCron = tasks[t].cat.scheduleCron,
                                           !.opCatPre = categoryJobs[tasks[t].cat.id]],
                          ScheduleCategoryOutcome(tasks[t].cat)))
    /\ UNCHANGED <<store, firings>>

\* DELETE /api/categories/:id, up to its first await: the job is stopped if
\* require('./scheduler') gives a categoryJobs map; then
\* await prisma.site.updateMany({ where: { categoryId: id }, data: { categoryId: null } })
DeleteCategoryStopJob(R, id) ==
    IF "categoryJobs" \in SchedulerExports /\ R.categoryJobs[id] # 0
    THEN [JobStop(R, R.categoryJobs[id]) EXCEPT !.categoryJobs[id] = 0]
    ELSE R

DeleteCategory(t, id) ==
    /\ id \in StoredCategories(categoryTable)
    /\ siteTable' = [i \in SiteIds |->
                        IF siteTable[i].status = "stored" /\ siteTable[i].rec.categoryId = id
                        THEN [siteTable[i] EXCEPT !.rec.categoryId = 0]
                        ELSE siteTable[i]]
    /\ Commit(t, Res([IdleTask EXCEPT !.op = "deleteCategory", !.pc = "categorySitesCleared",
                                      !.cat = categoryTable[id].rec],
                     DeleteCategoryStopJob(Reg, id), LastNone))
    /\ UNCHANGED <<categoryTable, configTable, firings>>

\* DELETE /api/categories/:id resumed: await prisma.category.delete; the
\* handler answers { ok: true } when the delete is done
CategorySitesCleared(t) ==
    /\ tasks[t].pc = "categorySitesCleared"
    /\ categoryTable' = [categoryTable EXCEPT ![tasks[t].cat.id] = SiteRow("deleted", NoCategory)]
    /\ Commit(t, FinishOp(tasks[t], Reg, [LastNone EXCEPT !.opCat = tasks[t].cat.id],
                          "returned"))
    /\ UNCHANGED <<siteTable, configTable, firings>>

\* the body schema of POST /api/schedule-config: fastify answers 400 itself
\* to a body the schema rejects and does not call the handler
SchemaAccepts(body) ==
    /\ body.hour >= 0 /\ body.hour <= 23
    /\ body.minute >= 0 /\ body.minute <= 59
    /\ body.interval >= 10 /\ body.interval <= 300

\* updateScheduleConfigHandler: the test that answers 400
HandlerRejects(body) ==
    \/ body.hour < 0 \/ body.hour > 23
    \/ body.minute < 0 \/ body.minute > 59
    \/ body.interval < 5 \/ body.interval > 300

\* POST /api/schedule-config: 400, or the handler up to
\* await prisma.scheduleConfig.findFirst()
UpdateScheduleConfig(t, body) ==
    /\ Commit(t, IF ~SchemaAccepts(body) \/ HandlerRejects(body)
                 THEN FinishOp([IdleTask EXCEPT !.op = "updateScheduleConfig"], Reg,
                               [LastNone EXCEPT !.opBody = body], "rejected")
                 ELSE Res([IdleTask EXCEPT !.op = "updateScheduleConfig",
                                           !.pc = "configFound", !.cfg = body,
                                           !.found = FindFirstConfig(configTable)],
                          Reg, [LastNone EXCEPT !.ev = "accepted", !.opBody = body]))
    /\ UNCHANGED <<store, firings>>

\* getScheduleConfigHandler: await prisma.scheduleConfig.findFirst()
GetScheduleConfig(t) ==
    /\ Commit(t, Res([IdleTask EXCEPT !.op = "getScheduleConfig", !.pc = "configRead",
                                      !.found = FindFirstConfig(configTable)],
                     Reg, LastNone))
    /\ UNCHANGED <<store, firings>>

\* getScheduleConfigHandler: the data of the record it creates
DefaultConfig ==
    [NoConfig EXCEPT !.enabled = FALSE, !.hour = 9, !.minute = 0, !.interval = 30]

\* getScheduleConfigHandler resumed: if (!config) create the default record;
\* return { ok: true, config }
ConfigRead(t) ==
    /\ tasks[t].pc = "configRead"
    /\ configTable' = IF tasks[t].found.id # 0 THEN configTable
                      ELSE Append(configTable,
                                  [DefaultConfig EXCEPT !.id = Len(configTable) + 1])
    /\ Commit(t, FinishOp(tasks[t], Reg,
                          [LastNone EXCEPT !.ev = IF tasks[t].found.id # 0 THEN "configRead"
                                                  ELSE "configCreated"],
                          "returned"))
    /\ UNCHANGED <<siteTable, categoryTable, firings>>

\* updateScheduleConfigHandler resumed: update the record found, or create one
ConfigFound(t) ==
    /\ tasks[t].pc = "configFound"
    /\ LET T == tasks[t]
           id == IF T.found.id # 0 THEN T.found.id ELSE Len(configTable) + 1
           old == IF T.found.id # 0 THEN configTable[id] ELSE NoConfig
           config == [old EXCEPT !.id = id, !.enabled = T.cfg.enabled,
                                 !.overrideIndividual = T.cfg.overrideIndividual,
                                 !.hour = T.cfg.hour, !.minute = T.cfg.minute,
                                 !.interval = T.cfg.interval]
       IN  /\ configTable' = IF T.found.id # 0
                             THEN [configTable EXCEPT ![id] = config]
                             ELSE Append(configTable, config)
           /\ Commit(t, Res([T EXCEPT !.pc = "configWritten", !.cfg = config,
                                      !.found = NoConfig], Reg, LastNone))
    /\ UNCHANGED <<siteTable, categoryTable, firings>>

\* updateScheduleConfigHandler resumed: await scheduleGlobalTask(config)
ConfigWritten(t) ==
    /\ tasks[t].pc = "configWritten"
    /\ Commit(t, EnterSGT(tasks[t], Reg, LastNone, tasks[t].cfg))
    /\ UNCHANGED <<store, firings>>

(* ------------------------- the registry model -------------------------- *)
CronInputs == {Null, Empty, Spaces, Daily, Malformed}

SiteBody(cron, pinned, exclude, cat) ==
    [id |-> 0, scheduleCron |-> cron, pinned |-> pinned,
     excludeFromBatch |-> exclude, categoryId |-> cat]

ConfigBody(enabled, override, interval) ==
    [NoConfig EXCEPT !.enabled = enabled, !.overrideIndividual = override,
                     !.hour = 9, !.minute = 0, !.interval = interval]

NoPatch == [has |-> {}, scheduleCron |-> Null, pinned |-> FALSE,
            excludeFromBatch |-> FALSE, categoryId |-> 0]
CronPatch(cron) == [NoPatch EXCEPT !.has = {"scheduleCron"}, !.scheduleCron = cron]

\* the stores start-up may find: the first site has a schedule, the later
\* ones have none, have one, or do not exist yet
InitSiteTables ==
    {[i \in SiteIds |-> IF i <= n
                        THEN SiteRow("stored", [SiteBody(IF i = 1 THEN Daily ELSE c, FALSE, FALSE, 0)
                                                   EXCEPT !.id = i])
                        ELSE SiteRow("unused", NoSite)] :
        n \in (MaxSites - 1)..MaxSites, c \in {Null, Daily}}

InitRegistries ==
    /\ jobs = ZeroJobs
    /\ categoryJobs = [k \in CategoryIds |-> 0]
    /\ globalScheduleJob = 0
    /\ cronJobs = {}
    /\ stoppedJobs = {}
    /\ nextJobId = 1
    /\ tasks = [t \in TaskIds |-> IdleTask]
    /\ last = LastNone

Init ==
    /\ siteTable \in InitSiteTables
    /\ categoryTable \in {[i \in CategoryIds |-> SiteRow("unused", NoCategory)],
                          [i \in CategoryIds |-> SiteRow("stored", [id |-> i, scheduleCron |-> Daily])]}
    /\ configTable \in {<<>>, <<[ConfigBody(TRUE, FALSE, 30) EXCEPT !.id = 1]>>}
    /\ InitRegistries
    /\ firings = [f \in FiringIds |-> IdleFiring]

Handlers(n) ==
    \E t \in 1..n :
        /\ FreeTask(t, n)
        /\ \/ \E c \in {Null, Daily} : PostSite(t, SiteBody(c, FALSE, FALSE, 0))
           \/ \E id \in SiteIds, c \in {Spaces, Daily, Malformed} : PatchSite(t, id, CronPatch(c))
           \/ \E id \in SiteIds : PatchSite(t, id, NoPatch)
           \/ \E id \in SiteIds : DeleteSite(t, id)
           \/ \E c \in {Null, Daily} : PostCategory(t, c)
           \/ \E id \in CategoryIds, c \in {Empty, Daily, Malformed} :
                    PatchCategory(t, id, TRUE, c)
           \/ \E id \in CategoryIds : DeleteCategory(t, id)
           \/ \E e \in BOOLEAN, o \in BOOLEAN : UpdateScheduleConfig(t, ConfigBody(e, o, 30))

Resumes ==
    \E t \in TaskIds :
        \/ LoopSites(t)
        \/ ScheduleSiteResume(t)
        \/ ScheduleAllCategories(t)
        \/ SiteCreated(t)
        \/ SiteUpdated(t)
        \/ CategoryWritten(t)
        \/ CategorySitesCleared(t)
        \/ ConfigFound(t)
        \/ ConfigWritten(t)

Next == Startup \/ StartupConfig \/ Handlers(MaxOps) \/ Resumes

Spec == Init /\ [][Next]_vars

(* --------------------------- firing actions ---------------------------- *)
\* what checkSite may do: return { hasChanges, checkInResult } or throw
\* diff is 0 for a result without a diff, else the diff's identity
CheckResult(threw, hasChanges, diff, checkIn) ==
    [threw |-> threw, hasChanges |-> hasChanges, diff |-> diff, checkInResult |-> checkIn]
CheckResults == {CheckResult(FALSE, TRUE, 1, c) : c \in BOOLEAN}
                \cup {CheckResult(FALSE, FALSE, d, c) : d \in {0, 1}, c \in BOOLEAN}
                \cup {CheckResult(TRUE, FALSE, 0, FALSE)}

CommitF(f, F, E) ==
    /\ firings' = [firings EXCEPT ![f] = F]
    /\ last' = E
    /\ tasks' = [u \in TaskIds |-> [tasks[u] EXCEPT !.ssAlone = FALSE, !.sgtAlone = FALSE]]
    /\ UNCHANGED <<jobs, categoryJobs, globalScheduleJob, cronJobs, stoppedJobs, nextJobId>>

\* the callback returns (or its catch has logged the error)
EndFiring(F, E) ==
    [F |-> DoneFiring,
     E |-> [E EXCEPT !.batch = F.kind, !.sites = F.sites, !.calls = F.calls,
                     !.outs = F.outs, !.failed = F.failed,
                     !.kind = F.kind, !.job = F.job, !.captured = F.captured,
                     !.found = F.found, !.latest = F.latest, !.interval = F.interval,
                     !.read = F.read, !.changes = F.changes, !.results = F.results,
                     !.delays = F.delays, !.notified = F.notified,
                     !.lastRunWrites = F.lastRunWrites,
                     !.notifyThrew = F.notifyThrew]]

CheckOptionsMutant(kind, skip) ==
    [skipNotification |-> kind \in {"manual", "manualSite"} /\ skip,
     isManual |-> kind \in {"manual", "manualSite"}]

\* the options each caller gives checkSite or checkSiteById: the jobs give
\* literals, the two manual routes the skipNotification of the query string
CheckOptions(kind, skip) ==
    CASE kind = "global" -> [skipNotification |-> TRUE, isManual |-> FALSE]
      [] kind \in {"site", "category"} -> [skipNotification |-> FALSE, isManual |-> FALSE]
      [] OTHER -> [skipNotification |-> skip, isManual |-> TRUE]

\* await checkSite(site, fastify, { skipNotification, isManual })
CallCheckSite(F, E, site) ==
    [F |-> [F EXCEPT !.pc = "checkSite", !.calls = Append(@, site.id)],
     E |-> [E EXCEPT !.check = site, !.checkBy = F.kind,
                     !.checkOverride = F.latest.overrideIndividual,
                     !.skipNotification = CheckOptions(F.kind, F.skip).skipNotification,
                     !.isManual = CheckOptions(F.kind, F.skip).isManual]]

\* a started job reaches a scheduled instant: its callback runs up to its
\* first await, the re-read of the site, the category or the global config
Fire(f, j) ==
    /\ firings[f].kind = "idle"
    /\ \A g \in 1..(f - 1) : firings[g].kind # "idle"
    /\ j \in cronJobs
    /\ LET F == [IdleFiring EXCEPT !.kind = j.kind, !.key = j.key, !.job = j.id,
                                   !.configId = j.configId, !.interval = j.interval,
                                   !.captured = j.site]
       IN  CommitF(f, CASE j.kind = "site" ->
                            LET site == FindUniqueSite(siteTable, j.site.id)
                            IN  [F EXCEPT !.pc = "findSite", !.found = (site.id # 0),
                                          !.read = IF site.id # 0 THEN <<site>> ELSE <<>>]
                        [] j.kind = "category" ->
                            LET cat == FindUniqueCategory(categoryTable, j.key)
                            IN  [F EXCEPT !.pc = "findCategory", !.found = (cat.id # 0),
                                          !.read = IF cat.id # 0
                                                   THEN CategorySites(siteTable, j.key)
                                                   ELSE <<>>]
                        [] OTHER ->
                            [F EXCEPT !.pc = "findConfig",
                                      !.latest = FindUniqueConfig(configTable, j.configId)],
                   LastNone)
    /\ UNCHANGED store

\* the catch of a callback only logs: the registries are as they were
CaughtInCallbackMutant(R, job) == JobStop(R, job)

CaughtInCallback(R, job) == R

\* a run of a callback ends in its catch
CommitCaught(f, F, E) ==
    /\ firings' = [firings EXCEPT ![f] = F]
    /\ last' = [E EXCEPT !.caught = TRUE]
    /\ tasks' = [u \in TaskIds |-> [tasks[u] EXCEPT !.ssAlone = FALSE, !.sgtAlone = FALSE]]
    /\ SetReg(CaughtInCallback(Reg, firings[f].job))

\* a store read of a firing rejects: the callback's catch logs it
StoreReadFails(f) ==
    /\ firings[f].pc \in {"findSite", "findCategory", "findConfig", "findSites"}
    /\ LET r == EndFiring([firings[f] EXCEPT !.sites = <<>>, !.read = <<>>], LastNone)
       IN  CommitCaught(f, r.F, [r.E EXCEPT !.batch = "aborted"])
    /\ UNCHANGED store

SiteToCheckMutant(F) == F.captured

\* site job: the record checkSite is given is latestSite
SiteToCheck(F) == F.read[1]

\* site job resumed: if (!latestSite) return; await checkSite(latestSite, ...)
SiteFound(f) ==
    /\ firings[f].pc = "findSite"
    /\ LET F == firings[f]
           F1 == [F EXCEPT !.sites = <<SiteToCheck(F)>>, !.i = 1]
           r == IF ~F.found THEN EndFiring(F, LastNone)
                ELSE CallCheckSite(F1, LastNone, F1.sites[1])
       IN  CommitF(f, r.F, r.E)
    /\ UNCHANGED store

CategorySitesUnfiltered(sites) == sites

CategorySitesNotExcluded(sites) ==
    SelectSeq(sites, LAMBDA s : ~s.pinned /\ ~s.excludeFromBatch)

\* category job: latestCategory.sites.filter(site => !site.pinned)
CategorySitesToCheck(sites) == SelectSeq(sites, LAMBDA s : ~s.pinned)

\* category job resumed: not found or nothing to check -> return; else the
\* first check of the batch
CategoryFound(f) ==
    /\ firings[f].pc = "findCategory"
    /\ LET F == firings[f]
           sitesToCheck == CategorySitesToCheck(F.read)
           F1 == [F EXCEPT !.sites = sitesToCheck, !.i = 1]
           r == IF ~F.found \/ sitesToCheck = <<>> THEN EndFiring(F1, LastNone)
                ELSE CallCheckSite(F1, LastNone, sitesToCheck[1])
       IN  CommitF(f, r.F, r.E)
    /\ UNCHANGED store

SkipFiringMutant(latestConfig) == latestConfig.id = 0

\* global job: if (!latestConfig || !latestConfig.enabled) return
SkipFiring(latestConfig) == latestConfig.id = 0 \/ ~latestConfig.enabled

\* global job resumed with the config: skip if missing or disabled, else
\* await prisma.site.findMany()
GlobalConfigFound(f) ==
    /\ firings[f].pc = "findConfig"
    /\ LET F == firings[f]
           r == IF SkipFiring(F.latest)
                THEN EndFiring(F, LastNone)
                ELSE [F |-> [F EXCEPT !.pc = "findSites", !.read = FindManySites(siteTable)],
                      E |-> [LastNone EXCEPT !.ev = "siteList",
                                             !.allSites = FindManySites(siteTable)]]
       IN  CommitF(f, r.F, IF r.F = DoneFiring THEN [r.E EXCEPT !.batch = "skipped"] ELSE r.E)
    /\ UNCHANGED store

GlobalCandidatesDedup(latestConfig, allSites) ==
    IF latestConfig.overrideIndividual THEN allSites
    ELSE SelectSeq(allSites, LAMBDA s : NoSchedule(s.scheduleCron) /\ s.categoryId = 0)

GlobalCandidatesMutant(latestConfig, allSites) ==
    IF latestConfig.overrideIndividual THEN allSites
    ELSE SelectSeq(allSites, LAMBDA s : NoSchedule(s.scheduleCron) /\ ~s.pinned)

\* global job: latestConfig.overrideIndividual ? allSites
\*   : allSites.filter(s => !s.scheduleCron || !s.scheduleCron.trim())
GlobalCandidates(latestConfig, allSites) ==
    IF latestConfig.overrideIndividual THEN allSites
    ELSE SelectSeq(allSites, LAMBDA s : NoSchedule(s.scheduleCron))

WriteLastRunMutant(tbl, id) == tbl

\* await prisma.scheduleConfig.update({ where: { id }, data: { lastRun: new Date() } })
WriteLastRun(tbl, id) ==
    IF id \in 1..Len(tbl) THEN [tbl EXCEPT ![id].lastRun = @ + 1] ELSE tbl

\* the global callback issues its lastRun write: the table it leaves and the
\* run, which logs the write if the table has changed
IssueLastRun(F, tbl) ==
    LET t == WriteLastRun(tbl, F.latest.id)
    IN  [tbl |-> t,
         F |-> [F EXCEPT !.pc = "lastRun",
                         !.lastRunWrites = @ + (IF t # tbl THEN 1 ELSE 0)]]

\* global job resumed with the site list: no candidate -> write lastRun and
\* return; else the first check of the batch
GlobalSitesFound(f) ==
    /\ firings[f].pc = "findSites"
    /\ LET F == firings[f]
           sites == GlobalCandidates(F.latest, F.read)
           F1 == [F EXCEPT !.sites = sites, !.i = 1]
           E1 == [LastNone EXCEPT !.ev = "candidates",
                                  !.candidates = sites, !.allSites = F.read,
                                  !.checkOverride = F.latest.overrideIndividual]
       IN  IF sites = <<>>
           THEN LET w == IssueLastRun(F1, configTable)
                IN  /\ configTable' = w.tbl
                    /\ CommitF(f, w.F, E1)
           ELSE /\ configTable' = configTable
                /\ LET r == CallCheckSite(F1, E1, sites[1])
                   IN  CommitF(f, r.F, r.E)
    /\ UNCHANGED <<siteTable, categoryTable>>

GlobalCollectMutant(F, site, result) ==
    IF result.threw THEN F
    ELSE IF result.hasChanges \/ result.checkInResult
    THEN [F EXCEPT !.changes = Append(@, [site |-> site.id,
                                          diff |-> IF result.hasChanges THEN result.diff ELSE 0,
                                          checkInResult |-> result.checkInResult])]
    ELSE F

GlobalCollectChangesOnly(F, site, result) ==
    IF result.threw THEN [F EXCEPT !.failed = Append(@, site.id)]
    ELSE IF result.hasChanges
    THEN [F EXCEPT !.changes = Append(@, [site |-> site.id, diff |-> result.diff,
                                          checkInResult |-> result.checkInResult])]
    ELSE F

\* global job: what one check adds to sitesWithChanges or to failedSites
GlobalCollect(F, site, result) ==
    IF result.threw THEN [F EXCEPT !.failed = Append(@, site.id)]
    ELSE IF result.hasChanges \/ result.checkInResult
    THEN [F EXCEPT !.changes = Append(@, [site |-> site.id,
                                          diff |-> IF result.hasChanges THEN result.diff ELSE 0,
                                          checkInResult |-> result.checkInResult])]
    ELSE F

ShouldNotifyMutant(sitesWithChanges, failedSites) == sitesWithChanges # <<>>

\* global job: if (sitesWithChanges.length > 0 || failedSites.length > 0)
ShouldNotify(sitesWithChanges, failedSites) ==
    sitesWithChanges # <<>> \/ failedSites # <<>>

\* global job: setTimeout(resolve, config.interval * 1000), config being the
\* object scheduleGlobalTask was called with
GlobalDelay(F) == F.interval

\* category job and manual category check: setTimeout(resolve, 5000)
CategoryDelay == 5

StartDelayFixedMutant(F) == [F EXCEPT !.pc = "delay", !.delays = Append(@, CategoryDelay)]

\* a batch goes to its pacing delay
StartDelay(F) ==
    [F EXCEPT !.pc = "delay",
              !.delays = Append(@, IF F.kind = "global" THEN GlobalDelay(F)
                                   ELSE CategoryDelay)]

\* checkSite returns or throws: the job records the result and goes on to
\* the pacing delay, to the notifier, to the lastRun write or to its end
CheckSettles(f, result) ==
    /\ firings[f].pc = "checkSite"
    /\ LET F0 == firings[f]
           F == [F0 EXCEPT !.outs = Append(@, IF result.threw THEN "threw" ELSE "returned"),
                           !.results = Append(@, result)]
           G == GlobalCollect(F, F.sites[F.i], result)
       IN  CASE F.kind = "site" ->
                    /\ LET r == EndFiring(F, LastNone)
                       IN  IF result.threw THEN CommitCaught(f, r.F, r.E)
                           ELSE CommitF(f, r.F, r.E)
                    /\ UNCHANGED store
             [] F.kind \in {"category", "manual", "manualSite"} ->
                    /\ IF F.i < Len(F.sites)
                       THEN CommitF(f, StartDelay(F), LastNone)
                       ELSE LET r == EndFiring(F, LastNone) IN CommitF(f, r.F, r.E)
                    /\ UNCHANGED store
             [] OTHER ->
                    IF F.i < Len(F.sites)
                    THEN /\ CommitF(f, StartDelay(G), LastNone)
                         /\ UNCHANGED store
                    ELSE IF ShouldNotify(G.changes, G.failed)
                    THEN /\ CommitF(f, [G EXCEPT !.pc = "notify", !.notified = @ + 1],
                                    LastNone)
                         /\ UNCHANGED store
                    ELSE LET w == IssueLastRun(G, configTable)
                         IN  /\ configTable' = w.tbl
                             /\ CommitF(f, w.F, LastNone)
                             /\ UNCHANGED <<siteTable, categoryTable>>

\* the pacing delay is over: the next check of the batch
DelayElapsed(f) ==
    /\ firings[f].pc = "delay"
    /\ LET F == [firings[f] EXCEPT !.i = @ + 1]
           r == CallCheckSite(F, LastNone, F.sites[F.i])
       IN  CommitF(f, r.F, r.E)
    /\ UNCHANGED store

AfterNotifyMutant(F, threw, tbl) ==
    IF threw THEN [tbl |-> tbl, F |-> [F EXCEPT !.pc = "lastRun", !.notifyThrew = TRUE]]
    ELSE IssueLastRun(F, tbl)

\* global job: sendAggregatedNotification has returned, or has thrown and
\* the inner catch has logged emailError; the lastRun write comes next
AfterNotify(F, threw, tbl) == IssueLastRun([F EXCEPT !.notifyThrew = threw], tbl)

\* sendAggregatedNotification returns or throws
Notified(f, threw) ==
    /\ firings[f].pc = "notify"
    /\ LET w == AfterNotify(firings[f], threw, configTable)
       IN  /\ configTable' = w.tbl
           /\ CommitF(f, w.F, LastNone)
    /\ UNCHANGED <<siteTable, categoryTable>>

\* the lastRun write is done: the global callback returns
LastRunWritten(f) ==
    /\ firings[f].pc = "lastRun"
    /\ LET r == EndFiring(firings[f], LastNone) IN CommitF(f, r.F, r.E)
    /\ UNCHANGED store

\* POST /api/categories/:id/check: prisma.site.findMany({ where: { categoryId,
\* pinned: false, excludeFromBatch: false } })
ManualCategorySites(stbl, cid) ==
    SelectSeq(FindManySites(stbl),
              LAMBDA s : s.categoryId = cid /\ ~s.pinned /\ ~s.excludeFromBatch)

\* POST /api/categories/:id/check up to its read of the sites; skip is
\* request.query?.skipNotification === 'true'
ManualCategoryCheck(f, id, skip) ==
    /\ Listening
    /\ firings[f].kind = "idle"
    /\ \A g \in 1..(f - 1) : firings[g].kind # "idle"
    /\ CommitF(f, [IdleFiring EXCEPT !.kind = "manual", !.key = id, !.pc = "findMembers",
                                     !.skip = skip,
                                     !.read = CategorySites(siteTable, id),
                                     !.sites = ManualCategorySites(siteTable, id)],
               LastNone)
    /\ UNCHANGED store

\* the manual check resumed: 400 if there is no site, else the first check
ManualSitesFound(f) ==
    /\ firings[f].pc = "findMembers"
    /\ LET F == [firings[f] EXCEPT !.i = 1]
           r == IF F.sites = <<>> THEN EndFiring(F, LastNone)
                ELSE CallCheckSite(F, LastNone, F.sites[1])
       IN  CommitF(f, r.F, r.E)
    /\ UNCHANGED store

\* POST /api/sites/:id/check: await checkSiteById(id, fastify,
\* { skipNotification, isManual: true }); the handler knows the id only
ManualSiteCheck(f, id, skip) ==
    /\ Listening
    /\ firings[f].kind = "idle"
    /\ \A g \in 1..(f - 1) : firings[g].kind # "idle"
    /\ LET F == [IdleFiring EXCEPT !.kind = "manualSite", !.key = id, !.skip = skip,
                                   !.sites = <<[NoSite EXCEPT !.id = id]>>, !.i = 1]
           r == CallCheckSite(F, LastNone, F.sites[1])
       IN  CommitF(f, r.F, r.E)
    /\ UNCHANGED store

FiringSteps(n) ==
    \E f \in 1..n :
        \/ \E j \in cronJobs : Fire(f, j)
        \/ StoreReadFails(f)
        \/ SiteFound(f)
        \/ CategoryFound(f)
        \/ GlobalConfigFound(f)
        \/ GlobalSitesFound(f)
        \/ \E result \in CheckResults : CheckSettles(f, result)
        \/ DelayElapsed(f)
        \/ \E threw \in BOOLEAN : Notified(f, threw)
        \/ LastRunWritten(f)
        \/ \E id \in CategoryIds, skip \in BOOLEAN : ManualCategoryCheck(f, id, skip)
        \/ ManualSitesFound(f)
        \/ \E id \in SiteIds, skip \in BOOLEAN : ManualSiteCheck(f, id, skip)

(* -------------------------- the firing model --------------------------- *)
PinPatch(b) == [NoPatch EXCEPT !.has = {"pinned"}, !.pinned = b]

InitFireSiteTables ==
    {[i \in SiteIds |->
        SiteRow("stored", [id |-> i, scheduleCron |-> c[i], pinned |-> (i \in p),
                           excludeFromBatch |-> (i = 1), categoryId |-> 1])] :
        c \in [SiteIds -> {Null, Empty, Spaces, Daily}], p \in {{}, {1}}}

InitFire ==
    /\ siteTable \in InitFireSiteTables
    /\ categoryTable = [i \in CategoryIds |-> SiteRow("stored", [id |-> i, scheduleCron |-> Daily])]
    /\ configTable \in {<<[ConfigBody(TRUE, o, 30) EXCEPT !.id = 1]>> : o \in BOOLEAN}
    /\ InitRegistries
    /\ firings = [f \in FiringIds |-> IdleFiring]

FireHandlers(n) ==
    \E t \in 1..n :
        /\ FreeTask(t, n)
        /\ \/ \E id \in SiteIds, c \in {Null, Daily} : PatchSite(t, id, CronPatch(c))
           \/ \E id \in SiteIds : DeleteSite(t, id)
           \/ \E e \in BOOLEAN, o \in BOOLEAN : UpdateScheduleConfig(t, ConfigBody(e, o, 10))

FireResumes ==
    \E t \in TaskIds :
        \/ LoopSites(t)
        \/ ScheduleSiteResume(t)
        \/ ScheduleAllCategories(t)
        \/ SiteUpdated(t)
        \/ ConfigFound(t)
        \/ ConfigWritten(t)

\* handlers and firings together
NextFire ==
    Startup \/ StartupConfig \/ FireHandlers(MaxFireOps) \/ FireResumes
        \/ FiringSteps(MaxFirings)

SpecFire == InitFire /\ [][NextFire]_vars

(* --------------------------- the tiers model --------------------------- *)
\* No request: the jobs start-up installs over sites that all belong to a
\* category with a schedule, and firings that run together.
InitTiers ==
    /\ siteTable \in
          {[i \in SiteIds |->
              SiteRow("stored", [SiteBody(c[i], FALSE, FALSE, 1) EXCEPT !.id = i])] :
           c \in [SiteIds -> {Null, Daily}]}
    /\ categoryTable = [i \in CategoryIds |-> SiteRow("stored", [id |-> i, scheduleCron |-> Daily])]
    /\ configTable = <<[ConfigBody(TRUE, FALSE, 30) EXCEPT !.id = 1]>>
    /\ InitRegistries
    /\ firings = [f \in FiringIds |-> IdleFiring]

TierResumes ==
    \E t \in TaskIds :
        \/ LoopSites(t)
        \/ ScheduleSiteResume(t)
        \/ ScheduleAllCategories(t)

NextTiers == Startup \/ StartupConfig \/ TierResumes \/ FiringSteps(MaxTierFirings)

SpecTiers == InitTiers /\ [][NextTiers]_vars

(* ------------------------- the liveness model -------------------------- *)
\* The firing model from fewer stores, with what the event loop and the
\* timers give a firing: a settled checkSite resumes the callback, and the
\* setTimeout of a pacing delay elapses.
ChecksAndDelays ==
    \A f \in 1..MaxFirings :
        /\ WF_vars(\E result \in CheckResults : CheckSettles(f, result))
        /\ WF_vars(DelayElapsed(f))

SpecLive == InitTiers /\ [][NextFire]_vars /\ ChecksAndDelays

(* --------------------------- the deep model ---------------------------- *)
\* Fewer kinds of request, one more of them: runs that follow the overlap
\* of two earlier ones.
InitDeep ==
    /\ siteTable = [i \in SiteIds |->
                        SiteRow("stored", [id |-> i,
                                           scheduleCron |-> IF i = 1 THEN Daily ELSE Null,
                                           pinned |-> FALSE, excludeFromBatch |-> FALSE,
                                           categoryId |-> 0])]
    /\ categoryTable = [i \in CategoryIds |-> SiteRow("unused", NoCategory)]
    /\ configTable \in {<<>>, <<[ConfigBody(TRUE, FALSE, 30) EXCEPT !.id = 1]>>}
    /\ InitRegistries
    /\ firings = [f \in FiringIds |-> IdleFiring]

DeepHandlers(n) ==
    \E t \in 1..n :
        /\ FreeTask(t, n)
        /\ \/ \E id \in SiteIds : PatchSite(t, id, NoPatch)
           \/ PatchSite(t, 1, CronPatch(Spaces))
           \/ \E e \in BOOLEAN, o \in BOOLEAN : UpdateScheduleConfig(t, ConfigBody(e, o, 30))

DeepResumes ==
    \E t \in TaskIds :
        \/ LoopSites(t)
        \/ ScheduleSiteResume(t)
        \/ ScheduleAllCategories(t)
        \/ SiteUpdated(t)
        \/ ConfigFound(t)
        \/ ConfigWritten(t)

NextDeep == Startup \/ StartupConfig \/ DeepHandlers(MaxDeepOps) \/ DeepResumes

SpecDeep == InitDeep /\ [][NextDeep]_vars

(* -------------------------- the config model --------------------------- *)
\* The two handlers of /api/schedule-config, with bodies on both sides of
\* each limit, over a store that has one site and has or has not a config.
InitConfig ==
    /\ siteTable = [i \in SiteIds |->
                        IF i = 1
                        THEN SiteRow("stored", [SiteBody(Daily, FALSE, FALSE, 0) EXCEPT !.id = 1])
                        ELSE SiteRow("unused", NoSite)]
    /\ categoryTable = [i \in CategoryIds |-> SiteRow("unused", NoCategory)]
    /\ configTable \in {<<>>, <<[ConfigBody(TRUE, FALSE, 30) EXCEPT !.id = 1]>>}
    /\ InitRegistries
    /\ firings = [f \in FiringIds |-> IdleFiring]

ConfigBodies ==
    {[ConfigBody(TRUE, FALSE, 30) EXCEPT !.hour = h] : h \in {0 - 1, 0, 23, 24}}
        \cup {[ConfigBody(TRUE, FALSE, 30) EXCEPT !.minute = m] : m \in {0 - 1, 0, 59, 60}}
        \cup {ConfigBody(TRUE, FALSE, i) : i \in {4, 5, 9, 10, 300, 301}}

ConfigHandlers(n) ==
    \E t \in 1..n :
        /\ FreeTask(t, n)
        /\ \/ \E body \in ConfigBodies : UpdateScheduleConfig(t, body)
           \/ GetScheduleConfig(t)

ConfigResumes ==
    \E t \in TaskIds :
        \/ LoopSites(t)
        \/ ScheduleSiteResume(t)
        \/ ScheduleAllCategories(t)
        \/ ConfigFound(t)
        \/ ConfigWritten(t)
        \/ ConfigRead(t)

NextConfig == Startup \/ StartupConfig \/ ConfigHandlers(MaxConfigOps) \/ ConfigResumes

SpecConfig == InitConfig /\ [][NextConfig]_vars

(* ----------------------- the schedule expressions ---------------------- *)
\* The places that build a schedule expression from an hour and a minute:
\* the web client's forms (src/unnamed/part_001) and scheduleGlobalTask.
DecimalDigits == <<"0", "1", "2", "3", "4", "5", "6", "7", "8", "9">>

RECURSIVE NatToChars(_)
NatToChars(n) ==
    IF n < 10 THEN <<DecimalDigits[n + 1]>>
    ELSE Append(NatToChars(n \div 10), DecimalDigits[(n % 10) + 1])

\* `${n}` for an integer n
NumToChars(n) == IF n < 0 THEN <<"-">> \o NatToChars(0 - n) ELSE NatToChars(n)

\* Math.max(lo, Math.min(hi, Number(v)))
Clamp(lo, hi, v) == IF v < lo THEN lo ELSE IF v > hi THEN hi ELSE v

\* `${m} ${h} * * *`
DailyTemplate(m, h) ==
    NumToChars(m) \o <<" ">> \o NumToChars(h) \o <<" ", "*", " ", "*", " ", "*">>

\* hmToCron(h, m), used by saveTime
hmToCron(h, m) == Str(DailyTemplate(Clamp(0, 59, m), Clamp(0, 23, h)))

\* onAdd: v.scheduleCron of the site create form
onAdd(h, m) == Str(DailyTemplate(Clamp(0, 59, m), Clamp(0, 23, h)))

\* onEdit: updateData.scheduleCron of the site edit form, `${m} ${h} * *`
onEdit(h, m) ==
    Str(NumToChars(Clamp(0, 59, m)) \o <<" ">> \o NumToChars(Clamp(0, 23, h))
            \o <<" ", "*", " ", "*">>)

\* saveCategoryHandler: scheduleCron of the category form
saveCategoryHandler(h, m) == Str(DailyTemplate(Clamp(0, 59, m), Clamp(0, 23, h)))

\* scheduleGlobalTask: const cronExp = `${minute} ${hour} * * *`
GlobalCronExp(config) == Str(DailyTemplate(config.minute, config.hour))

HourInputs == (0 - 1)..24
MinuteInputs == (0 - 1)..60

\* the cnHour and cnMinute of a form, or the hour and minute of a config
InitCron ==
    /\ siteTable = [i \in SiteIds |-> SiteRow("unused", NoSite)]
    /\ categoryTable = [i \in CategoryIds |-> SiteRow("unused", NoCategory)]
    /\ configTable = <<>>
    /\ jobs = ZeroJobs
    /\ categoryJobs = [k \in CategoryIds |-> 0]
    /\ globalScheduleJob = 0
    /\ cronJobs = {}
    /\ stoppedJobs = {}
    /\ nextJobId = 1
    /\ tasks = [t \in TaskIds |-> IdleTask]
    /\ firings = [f \in FiringIds |-> IdleFiring]
    /\ last \in {[LastNone EXCEPT !.ev = "input", !.h = h, !.m = m] :
                    h \in HourInputs, m \in MinuteInputs}

\* the expression a producer has built, kept with its inputs
Produced(by, cron) == [last EXCEPT !.ev = "cron", !.op = by, !.cron = cron]

CronUnchanged ==
    UNCHANGED <<store, jobs, categoryJobs, globalScheduleJob, cronJobs, stoppedJobs,
                nextJobId, tasks, firings>>

SaveTime ==
    /\ last.ev = "input"
    /\ last' = Produced("hmToCron", hmToCron(last.h, last.m))
    /\ CronUnchanged

OnAdd ==
    /\ last.ev = "input"
    /\ last' = Produced("onAdd", onAdd(last.h, last.m))
    /\ CronUnchanged

OnEdit ==
    /\ last.ev = "input"
    /\ last' = Produced("onEdit", onEdit(last.h, last.m))
    /\ CronUnchanged

SaveCategory ==
    /\ last.ev = "input"
    /\ last' = Produced("saveCategoryHandler", saveCategoryHandler(last.h, last.m))
    /\ CronUnchanged

\* the config scheduleGlobalTask is given has passed POST /api/schedule-config
\* or is the default record
GlobalCron ==
    LET config == [ConfigBody(TRUE, FALSE, 30) EXCEPT !.hour = last.h, !.minute = last.m]
    IN  /\ last.ev = "input"
        /\ SchemaAccepts(config) /\ ~HandlerRejects(config)
        /\ last' = Produced("scheduleGlobalTask", GlobalCronExp(config))
        /\ CronUnchanged

NextCron == SaveTime \/ OnAdd \/ OnEdit \/ SaveCategory \/ GlobalCron

SpecCron == InitCron /\ [][NextCron]_vars

(* ------------------------------- claims -------------------------------- *)
SiteJobsOf(k) == {j \in cronJobs : j.kind = "site" /\ j.key = k}
CategoryJobsOf(k) == {j \in cronJobs : j.kind = "category" /\ j.key = k}
GlobalJobs == {j \in cronJobs : j.kind = "global"}
Quiescent == Listening /\ InFlight = {}
StoredOverride ==
    /\ configTable # <<>>
    /\ configTable[1].enabled
    /\ configTable[1].overrideIndividual
StoredDisabled == configTable = <<>> \/ ~configTable[1].enabled

\* a schedule expression that is null, empty or made of blanks only
Blank(v) == v.null \/ \A i \in 1..Len(v.s) : v.s[i] = " "

\* C1: every started individual job that is not the one the jobs map holds
\* under its site id has been stopped, so a site id never has two live jobs.
C1_OneLiveJobPerSite ==
    \A k \in SiteIds : \A j \in SiteJobsOf(k) : jobs[k] = j.id

\* C2: a scheduleSite(site) call that returned with no other run interleaved
\* leaves exactly one live job under site.id when site.scheduleCron is not
\* blank and the stored global config is not enabled with overrideIndividual,
\* and none otherwise; the job held before is stopped and the entries of the
\* other site ids are as they were.
C2_ScheduleSitePost ==
    (last.ss = "returned" /\ last.ssAlone) =>
        LET k == last.ssSite.id
        IN  /\ IF ~Blank(last.ssSite.scheduleCron) /\ ~StoredOverride
               THEN last.ssPost[k] # 0 /\ last.ssPost[k] \in last.ssRunning
               ELSE last.ssPost[k] = 0
            /\ last.ssPre[k] # 0 => last.ssPre[k] \notin last.ssRunning
            /\ last.ssPost[k] # last.ssPre[k] \/ last.ssPost[k] = 0
            /\ \A o \in SiteIds \ {k} : last.ssPost[o] = last.ssPre[o]

C2_Witness ==
    /\ last.ss = "returned" /\ last.ssAlone
    /\ ~Blank(last.ssSite.scheduleCron) /\ ~StoredOverride
    /\ last.ssPre[last.ssSite.id] # 0
    /\ \E o \in SiteIds \ {last.ssSite.id} : last.ssPre[o] # 0

C4_DisabledReschedulesAll ==
    (last.sgt = "returned" /\ last.sgtAlone /\ StoredDisabled
        /\ (last.sgtCfg.id = 0 \/ ~last.sgtCfg.enabled)) =>
        /\ \A k \in StoredSites(siteTable) :
              Cardinality(SiteJobsOf(k)) =
                  IF Blank(siteTable[k].rec.scheduleCron) THEN 0 ELSE 1
        /\ globalScheduleJob = 0

\* C5: every started global job that is not the value of globalScheduleJob
\* has been stopped, so there are never two live global jobs.
C5_OneLiveGlobalJob ==
    \A j \in GlobalJobs : globalScheduleJob = j.id

\* C6: when the stored global config is enabled with overrideIndividual and
\* no scheduler operation is in progress, no individual site job is live.
C6_OverrideLeavesNoSiteJob ==
    (Quiescent /\ StoredOverride) => \A k \in SiteIds : SiteJobsOf(k) = {}

\* C7: the site list of a global firing is the stored sites at the read,
\* and the sites it checks are all of that list when the re-read config has
\* overrideIndividual, else exactly those with a blank scheduleCron; pinned,
\* excludeFromBatch and the category play no part.
C7_GlobalCandidates ==
    /\ last.ev = "siteList" =>
          /\ {s.id : s \in {last.allSites[i] : i \in 1..Len(last.allSites)}}
                = StoredSites(siteTable)
          /\ \A i \in 1..Len(last.allSites) :
                last.allSites[i] = siteTable[last.allSites[i].id].rec
    /\ last.ev = "candidates" =>
          /\ \A i \in 1..Len(last.allSites) :
                (last.checkOverride \/ Blank(last.allSites[i].scheduleCron))
                    <=> (\E c \in 1..Len(last.candidates) :
                            last.candidates[c] = last.allSites[i])
          /\ \A c \in 1..Len(last.candidates) :
                \E i \in 1..Len(last.allSites) : last.candidates[c] = last.allSites[i]

C7_Witness ==
    /\ last.ev = "candidates" /\ ~last.checkOverride
    /\ Len(last.candidates) < Len(last.allSites)
    /\ \E c \in 1..Len(last.candidates) :
          /\ last.candidates[c].pinned /\ last.candidates[c].excludeFromBatch
          /\ last.candidates[c].categoryId # 0

\* C8: a global firing whose re-read config has overrideIndividual false
\* never starts a check of a site that, at that moment, has a live
\* individual job or a stored scheduleCron that is not blank.
C8_NeverChecksScheduledSite ==
    (last.checkBy = "global" /\ ~last.checkOverride) =>
        /\ SiteJobsOf(last.check.id) = {}
        /\ last.check.id \in StoredSites(siteTable)
              => Blank(siteTable[last.check.id].rec.scheduleCron)

\* C9: when DELETE /api/categories/:id has answered, no live job of that
\* category is left.
C9_DeleteStopsCategoryJob ==
    (last.op = "deleteCategory" /\ last.opOut = "returned") =>
        CategoryJobsOf(last.opCat) = {}

\* C10: a batch checks its sites in list order, once each and one at a
\* time, also after a check that threw; the failed list of a global firing
\* holds exactly the sites whose check threw.
C10_BatchOrder ==
    /\ \A f \in FiringIds :
          LET F == firings[f]
          IN  /\ Len(F.calls) = Len(F.outs) + (IF F.pc = "checkSite" THEN 1 ELSE 0)
              /\ Len(F.calls) <= Len(F.sites)
              /\ \A i \in 1..Len(F.calls) : F.calls[i] = F.sites[i].id
    /\ last.batch \in {"global", "category"} =>
          /\ last.calls = [i \in 1..Len(last.sites) |-> last.sites[i].id]
          /\ Len(last.outs) = Len(last.sites)
          /\ \A i, k \in 1..Len(last.sites) :
                i # k => last.sites[i].id # last.sites[k].id
          /\ last.batch = "global" =>
                last.failed = SelectSeq(last.calls,
                                  LAMBDA id : \E i \in 1..Len(last.calls) :
                                        last.calls[i] = id /\ last.outs[i] = "threw")

C10_Witness ==
    /\ last.batch = "global"
    /\ Len(last.sites) = 2
    /\ last.outs = <<"threw", "returned">>

\* the ids of a list of sites, in its order
IdsOf(sites) == [i \in 1..Len(sites) |-> sites[i].id]

\* C11: a batch over an empty list makes no check, no pacing delay and no
\* notification: a global firing without candidate only writes lastRun, a
\* category firing whose members are all pinned (or that has none) ends
\* without a check.
C11_EmptyBatch ==
    /\ (last.batch = "global"
          /\ ~last.latest.overrideIndividual
          /\ \A i \in 1..Len(last.read) : ~Blank(last.read[i].scheduleCron)) =>
            /\ last.calls = <<>> /\ last.delays = <<>> /\ last.notified = 0
            /\ last.lastRunWrites = 1
    /\ (last.batch = "global" /\ last.read = <<>>) =>
            /\ last.calls = <<>> /\ last.delays = <<>> /\ last.notified = 0
            /\ last.lastRunWrites = 1
    /\ (last.batch = "category" /\ \A i \in 1..Len(last.read) : last.read[i].pinned) =>
            /\ last.calls = <<>> /\ last.delays = <<>> /\ last.notified = 0

C11_Witness ==
    /\ last.batch = "global" /\ ~last.latest.overrideIndividual
    /\ last.read # <<>> /\ last.sites = <<>>
    /\ last.calls = <<>> /\ last.lastRunWrites = 1

\* C12: every pacing delay of a global batch is the interval of the config
\* the firing re-read when it started.
C12_DelayIsRereadInterval ==
    \A f \in FiringIds :
        firings[f].kind = "global" =>
            \A i \in 1..Len(firings[f].delays) :
                firings[f].delays[i] = firings[f].latest.interval

\* C13: a global firing that runs its batch calls the notifier once, after
\* the last check, when a check threw or gave changes or a check-in result,
\* and never otherwise.
C13_NotifyOnce ==
    /\ \A f \in FiringIds :
          firings[f].notified > 0 =>
              /\ firings[f].notified = 1
              /\ firings[f].sites # <<>>
              /\ Len(firings[f].outs) = Len(firings[f].sites)
    /\ (last.batch = "global" /\ last.sites # <<>>) =>
          last.notified =
              IF \E i \in 1..Len(last.results) :
                    \/ last.results[i].threw
                    \/ last.results[i].hasChanges
                    \/ last.results[i].checkInResult
              THEN 1 ELSE 0

C13_Witness ==
    /\ last.batch = "global" /\ last.notified = 1
    /\ last.changes = <<>> /\ last.failed # <<>>

\* the entries the returned checks of a batch should give, in list order
RECURSIVE ExpectedChanges(_, _, _)
ExpectedChanges(sites, results, i) ==
    IF i > Len(results) THEN <<>>
    ELSE (IF ~results[i].threw /\ (results[i].hasChanges \/ results[i].checkInResult)
          THEN <<[site |-> sites[i].id,
                  diff |-> IF results[i].hasChanges THEN results[i].diff ELSE 0,
                  checkInResult |-> results[i].checkInResult]>>
          ELSE <<>>) \o ExpectedChanges(sites, results, i + 1)

\* C14: the changed list of a global firing holds exactly the sites whose
\* check returned with hasChanges or with a check-in result, the diff being
\* the result's when hasChanges and null otherwise.
C14_ChangedList ==
    /\ \A f \in FiringIds :
          firings[f].kind = "global" =>
              firings[f].changes =
                  ExpectedChanges(firings[f].sites, firings[f].results, 1)
    /\ last.batch = "global" =>
          last.changes = ExpectedChanges(last.sites, last.results, 1)

C14_Witness ==
    /\ last.batch = "global"
    /\ \E i \in 1..Len(last.results) :
          /\ ~last.results[i].hasChanges /\ last.results[i].diff # 0
          /\ last.results[i].checkInResult
    /\ \E c \in 1..Len(last.changes) : last.changes[c].diff = 0
    /\ \E i \in 1..Len(last.results) :
          ~last.results[i].threw /\ ~last.results[i].hasChanges
              /\ ~last.results[i].checkInResult

\* C15: a global firing that reaches its end has written lastRun once; one
\* that is skipped or that aborts on a failed read has not written it.
C15_LastRunOnce ==
    /\ \A f \in FiringIds : firings[f].lastRunWrites <= 1
    /\ (last.kind = "global" /\ last.batch = "global") => last.lastRunWrites = 1
    /\ (last.kind = "global" /\ last.batch \in {"skipped", "aborted"}) =>
          last.lastRunWrites = 0

C15_Witness ==
    /\ last.kind = "global" /\ last.batch = "global"
    /\ Len(last.calls) = 2 /\ last.notified = 0 /\ last.lastRunWrites = 1
    /\ configTable[last.latest.id].lastRun = 1

\* C16: a global firing whose re-read config is absent or disabled makes no
\* check, sends no notification and does not write lastRun; a firing that
\* is past the re-read holds an enabled config.
C16_DisabledSkips ==
    /\ \A f \in FiringIds :
          (firings[f].kind = "global" /\ firings[f].pc # "findConfig") =>
              firings[f].latest.id # 0 /\ firings[f].latest.enabled
    /\ (last.kind = "global" /\ last.batch # "aborted"
          /\ (last.latest.id = 0 \/ ~last.latest.enabled)) =>
            /\ last.batch = "skipped"
            /\ last.calls = <<>> /\ last.notified = 0 /\ last.lastRunWrites = 0

C16_Witness ==
    /\ last.kind = "global" /\ last.batch = "skipped"
    /\ last.latest.id # 0 /\ ~last.latest.enabled
    /\ last.interval # 0

\* C17: a firing of a site job checks nothing when the site is gone, and
\* else checks once the record it re-read, not the one the job was
\* installed with.
C17_SiteJobRereads ==
    /\ \A f \in FiringIds :
          (firings[f].kind = "site" /\ firings[f].pc = "checkSite") =>
              firings[f].sites = firings[f].read /\ Len(firings[f].calls) = 1
    /\ (last.kind = "site" /\ last.batch = "site") =>
          IF last.read = <<>> THEN last.calls = <<>>
          ELSE last.calls = <<last.read[1].id>> /\ last.sites = last.read

C17_Witness ==
    /\ last.checkBy = "site"
    /\ \E j \in cronJobs : j.kind = "site" /\ j.key = last.check.id
                              /\ j.site # last.check

\* C18: a step in which a callback's catch ran (a failed check of a site job,
\* a failed store read of any job) leaves the registries and every job as
\* they were, so the job stays installed and started.
C18_CaughtKeepsJob ==
    [][last'.caught => UNCHANGED <<jobs, categoryJobs, globalScheduleJob, cronJobs>>]_vars

C18_Witness ==
    /\ last.caught /\ last.kind = "site" /\ last.outs = <<"threw">>
    /\ jobs[last.captured.id] = last.job
    /\ Running(Reg, last.job)

\* C19: scheduleCategory installs the job of a category with a schedule
\* whatever the global config is, and a scheduleGlobalTask call that ran with
\* nothing interleaved leaves categoryJobs and the category jobs as they were.
C19_CategoryIndependent ==
    /\ (last.op \in {"postCategory", "patchCategory"} /\ last.opOut = "returned"
          /\ ~Blank(last.opCron)) =>
            /\ categoryJobs[last.opCat] # 0
            /\ Running(Reg, categoryJobs[last.opCat])
    /\ (last.sgt # "none" /\ last.sgtAlone) =>
            /\ categoryJobs = last.sgtCatPre
            /\ {j.id : j \in {c \in cronJobs : c.kind = "category"}} = last.sgtCatRunning

C19_Witness ==
    /\ last.sgt = "returned" /\ last.sgtAlone
    /\ last.sgtCfg.enabled /\ last.sgtCfg.overrideIndividual
    /\ \E k \in SiteIds : last.sgtPre[k] # 0
    /\ \E k \in CategoryIds : categoryJobs[k] # 0 /\ Running(Reg, categoryJobs[k])

\* C20: a category firing checks exactly the members of the re-read category
\* that are not pinned, excluded from batches or not; the manual category
\* check checks exactly the members neither pinned nor excluded.
C20_CategoryMembersChecked ==
    /\ (last.batch = "category" /\ last.found) =>
          last.calls = IdsOf(SelectSeq(last.read, LAMBDA s : ~s.pinned))
    /\ last.batch = "manual" =>
          last.calls = IdsOf(SelectSeq(last.read,
                                       LAMBDA s : ~s.pinned /\ ~s.excludeFromBatch))

C20_Witness ==
    /\ last.batch = "category" /\ last.found
    /\ \E i \in 1..Len(last.sites) : last.sites[i].excludeFromBatch
    /\ Len(last.calls) = 2

\* C21: a global firing whose re-read config has overrideIndividual false
\* never starts a check of a site whose pinned flag is set.
C21_GlobalSkipsPinned ==
    (last.checkBy = "global" /\ ~last.checkOverride) => ~last.check.pinned

\* C22: a check started by a job has isManual false, and skipNotification
\* true when the job is the global one and false when it is a site or a
\* category job; a check started by a manual route has isManual true.
C22_CheckOptions ==
    /\ last.checkBy \in {"site", "category", "global"} =>
          /\ ~last.isManual
          /\ last.skipNotification = (last.checkBy = "global")
    /\ last.checkBy \in {"manual", "manualSite"} => last.isManual

C22_Witness ==
    /\ last.checkBy = "global" /\ last.skipNotification /\ ~last.isManual
    /\ \E f \in FiringIds : firings[f].pc = "checkSite" /\ Len(firings[f].calls) = 2

\* C23: a schedule expression the timer library rejects makes the hook that
\* was installing the job throw to its caller: scheduleSite does not throw
\* after onSiteUpdated has returned to the request handler, and
\* scheduleCategory throws to the category handlers.
C23_InstallFailureSurfaces ==
    /\ last.ss = "threw" => last.ssRet # "onSiteUpdated"
    /\ (last.op \in {"postCategory", "patchCategory"}
          /\ ~NoSchedule(last.opCron) /\ ~CronAccepts(last.opCron.s)) =>
            last.opOut = "threw"

\* C27: at most one scheduleConfig record exists, and a record that
\* getScheduleConfigHandler created has the defaults: disabled, 9:00, 30 s.
C27_ConfigSingleton ==
    /\ Len(configTable) <= 1
    /\ last.ev = "configCreated" =>
          LET c == configTable[Len(configTable)]
          IN  ~c.enabled /\ c.hour = 9 /\ c.minute = 0 /\ c.interval = 30

\* the limits the claim gives: hour 0..23, minute 0..59, interval 5..300
InLimits(body) ==
    /\ body.hour \in 0..23
    /\ body.minute \in 0..59
    /\ body.interval \in 5..300

\* C28: POST /api/schedule-config goes on to store the body and to
\* reconfigure the jobs exactly when the body is within the limits.
C28_AcceptsWithinLimits ==
    /\ (last.op = "updateScheduleConfig" /\ last.opOut = "rejected") =>
          ~InLimits(last.opBody)
    /\ last.ev = "accepted" => InLimits(last.opBody)

\* the ids of the sites a firing has started a check of
Checked(F) == {F.calls[i] : i \in 1..Len(F.calls)}

\* C24: a category firing takes every member that is not pinned, with or
\* without a schedule of its own, and a global firing without override takes
\* every site with a blank schedule, in a category or not: neither list
\* leaves out what another tier checks.
C24_TiersAdditive ==
    \A f \in FiringIds :
        LET F == firings[f]
        IN  /\ (F.kind = "category" /\ F.pc # "findCategory") =>
                  \A i \in 1..Len(F.read) :
                      ~F.read[i].pinned => \E k \in 1..Len(F.sites) : F.sites[k] = F.read[i]
            /\ (F.kind = "global" /\ F.pc \notin {"findConfig", "findSites"}
                  /\ ~F.latest.overrideIndividual) =>
                  \A i \in 1..Len(F.read) :
                      Blank(F.read[i].scheduleCron) =>
                          \E k \in 1..Len(F.sites) : F.sites[k] = F.read[i]

C24_Witness ==
    \E f, g \in FiringIds :
        /\ firings[f].kind = "global" /\ firings[g].kind = "category"
        /\ Checked(firings[f]) \cap Checked(firings[g]) # {}
        /\ \E k \in Checked(firings[g]) : jobs[k] # 0 /\ Running(Reg, jobs[k])

\* C25: no two runs of the callback of one job are in progress together.
C25_NoOverlap ==
    \A f, g \in FiringIds :
        (f # g /\ firings[f].job # 0 /\ firings[g].job # 0) =>
            firings[f].job # firings[g].job

\* a batch has called the notifier exactly when one of its checks threw or
\* gave changes or a check-in result
NotifiedAsDue(E) ==
    E.notified = IF \E i \in 1..Len(E.results) :
                       \/ E.results[i].threw
                       \/ E.results[i].hasChanges
                       \/ E.results[i].checkInResult
                 THEN 1 ELSE 0

\* C26: the callback of a job never starts after stop() has been called on
\* the job, and a firing that was in progress when its job was stopped ends
\* as any other: every site of its list checked, the notification sent when
\* due, lastRun written.
C26_StopAndInFlight ==
    [][/\ \A f \in FiringIds :
            (firings[f].kind = "idle" /\ firings'[f].job # 0) =>
                firings'[f].job \notin stoppedJobs
       /\ (last'.batch \in {"global", "category"} /\ last'.job \in stoppedJobs') =>
            /\ last'.calls = IdsOf(last'.sites)
            /\ Len(last'.outs) = Len(last'.sites)
            /\ last'.batch = "global" =>
                  NotifiedAsDue(last') /\ last'.lastRunWrites = 1]_vars

C26_Witness ==
    /\ last.batch = "global" /\ last.job \in stoppedJobs
    /\ Len(last.calls) = 2 /\ last.notified = 1 /\ last.lastRunWrites = 1
    /\ globalScheduleJob = 0
    /\ StoredDisabled

\* C30: when sendAggregatedNotification throws, the step that takes the
\* error leaves the registries and the jobs as they were, does not end in the
\* callback's outer catch, keeps the results collected so far and goes on to
\* the lastRun write; the firing ends with one notifier call and one write.
C30_NotifyFailureCaught ==
    [][/\ \A f \in FiringIds :
            (firings[f].pc = "notify" /\ firings'[f].pc # "notify"
                /\ firings'[f].notifyThrew) =>
                /\ UNCHANGED <<jobs, categoryJobs, globalScheduleJob, cronJobs>>
                /\ ~last'.caught
                /\ firings'[f].pc = "lastRun"
                /\ firings'[f].notified = 1
                /\ firings'[f].lastRunWrites = 1
                /\ firings'[f].results = firings[f].results
                /\ firings'[f].changes = firings[f].changes
                /\ firings'[f].failed = firings[f].failed
                /\ configTable'[firings[f].latest.id].lastRun
                      = configTable[firings[f].latest.id].lastRun + 1
       /\ (last'.batch = "global" /\ last'.notifyThrew) =>
            /\ ~last'.caught
            /\ last'.notified = 1
            /\ last'.lastRunWrites = 1]_vars

C30_Witness ==
    /\ last.batch = "global" /\ last.notifyThrew
    /\ last.notified = 1 /\ last.lastRunWrites = 1
    /\ last.changes # <<>>
    /\ globalScheduleJob = last.job /\ Running(Reg, last.job)

\* the number a string of decimal digits writes, or -1
RECURSIVE ParseNat(_)
ParseNat(chars) ==
    IF chars = <<>> THEN 0 - 1
    ELSE LET c == chars[Len(chars)]
             d == IF \E k \in 0..9 : DecimalDigits[k + 1] = c
                  THEN CHOOSE k \in 0..9 : DecimalDigits[k + 1] = c
                  ELSE 0 - 1
             front == SubSeq(chars, 1, Len(chars) - 1)
         IN  IF d < 0 THEN 0 - 1
             ELSE IF front = <<>> THEN d
             ELSE IF ParseNat(front) < 0 THEN 0 - 1
             ELSE 10 * ParseNat(front) + d

\* "M H * * *": five fields with one blank between them, M in 0..59 and
\* H in 0..23
IsDailyCron(v) ==
    /\ ~v.null
    /\ LET f == Fields(v.s, <<>>, <<>>)
       IN  /\ Len(f) = 5
           /\ ParseNat(f[1]) \in 0..59
           /\ ParseNat(f[2]) \in 0..23
           /\ f[3] = <<"*">> /\ f[4] = <<"*">> /\ f[5] = <<"*">>
           /\ Len(v.s) = Len(f[1]) + Len(f[2]) + 7

\* C29: every schedule expression built from an hour and a minute, by
\* hmToCron, by the site create form, by the site edit form, by the category
\* form and by scheduleGlobalTask, has the form "M H * * *".
C29_DailyForm ==
    last.ev = "cron" => IsDailyCron(last.cron)

(* ---------------------- stopAllIndividualJobs (C31) -------------------- *)
\* C31: stopAllIndividualJobs stops every job the jobs map held, leaves the
\* map empty and returns the number of jobs the map held; the categoryJobs
\* map, globalScheduleJob and the category and global jobs are as before.
C31_StopAllIndividualJobs ==
    last.saj = "returned" =>
        LET pre == last.sajPre
            post == last.sajPost
            held == {pre.jobs[k] : k \in {i \in SiteIds : pre.jobs[i] # 0}}
        IN  /\ post.jobs = ZeroJobs
            /\ \A id \in held : ~Running(post, id) /\ id \in post.stoppedJobs
            /\ last.sajCount = Cardinality(held)
            /\ post.categoryJobs = pre.categoryJobs
            /\ post.globalScheduleJob = pre.globalScheduleJob
            /\ {j \in post.cronJobs : j.id \notin held} = {j \in pre.cronJobs : j.id \notin held}

\* the map held the jobs of two sites, and a category job was running
C31_Witness ==
    /\ last.saj = "returned"
    /\ last.sajCount = 2
    /\ \A k \in SiteIds : Running(last.sajPre, last.sajPre.jobs[k])
    /\ \E j \in last.sajPost.cronJobs : j.kind = "category"
    /\ jobs = ZeroJobs

(* -------------------------- scheduleCategory (C32) --------------------- *)
\* C32: a category id never has two live category jobs, whatever
\* scheduleCategory calls have run; and when POST or PATCH /api/categories
\* has called scheduleCategory(category) and it returned, a live job for the
\* id exists exactly when category.scheduleCron is not blank, the job the
\* map held before being stopped.
C32_OneCategoryJob ==
    /\ \A k \in CategoryIds :
            /\ Cardinality(CategoryJobsOf(k)) <= 1
            /\ \A j \in CategoryJobsOf(k) : categoryJobs[k] = j.id
    /\ (last.op \in {"postCategory", "patchCategory"} /\ last.opOut = "returned") =>
            /\ (CategoryJobsOf(last.opCat) # {}) <=> ~Blank(last.opCron)
            /\ categoryJobs[last.opCat] # 0 <=> ~Blank(last.opCron)
            /\ last.opCatPre # 0 =>
                    /\ ~Running(Reg, last.opCatPre)
                    /\ last.opCatPre \in stoppedJobs
                    /\ categoryJobs[last.opCat] # last.opCatPre

\* PATCH /api/categories/:id gave a schedule to a category that had a live
\* job: the old job is stopped and a new one runs
C32_Witness ==
    /\ last.op = "patchCategory"
    /\ last.opOut = "returned"
    /\ last.opCatPre # 0
    /\ last.opCatPre \in stoppedJobs
    /\ ~Blank(last.opCron)
    /\ \E j \in CategoryJobsOf(last.opCat) : j.id = categoryJobs[last.opCat]

(* ---------------------------- scheduleAll (C33) ------------------------ *)
\* C33: when scheduleAll has returned and no other run was interleaved with
\* it, every stored site has a live individual job exactly when its
\* scheduleCron is not blank and the stored config is not enabled with
\* overrideIndividual, every stored category has a live category job exactly
\* when its scheduleCron is not blank, and the global job is the one there
\* was before the call.
C33_ScheduleAllReconciles ==
    (last.sa = "returned" /\ last.saAlone) =>
        /\ \A k \in StoredSites(siteTable) :
                SiteJobsOf(k) # {}
                    <=> (~Blank(siteTable[k].rec.scheduleCron) /\ ~StoredOverride)
        /\ \A k \in StoredCategories(categoryTable) :
                CategoryJobsOf(k) # {} <=> ~Blank(categoryTable[k].rec.scheduleCron)
        /\ globalScheduleJob = last.gPre

C35_NonOverrideInstalls ==
    (/\ last.sgt = "returned" /\ last.sgtAlone
     /\ last.sgtCfg.id # 0 /\ last.sgtCfg.enabled /\ ~last.sgtCfg.overrideIndividual
     /\ ~StoredDisabled /\ ~StoredOverride) =>
        /\ globalScheduleJob # 0
        /\ Running(Reg, globalScheduleJob)
        /\ \A k \in StoredSites(siteTable) :
                ~Blank(siteTable[k].rec.scheduleCron) => Cardinality(SiteJobsOf(k)) = 1

(* ------------------------- deleted sites (C36) ------------------------- *)
\* C36: every key of the jobs map is the id of a stored site, and no site
\* that is not stored has a live individual job: so none is left when
\* DELETE /api/sites/:id is over, nor after a later scheduleAll or
\* scheduleGlobalTask.
C36_JobsOfStoredSites ==
    \A k \in SiteIds :
        (jobs[k] # 0 \/ SiteJobsOf(k) # {}) => k \in StoredSites(siteTable)

(* ------------------- a reconciliation that throws (C37) ---------------- *)
\* C37: when scheduleGlobalTask or scheduleAll throws because installing a
\* site's job threw, no other run interleaved, the registries are as before
\* the call: the global job there was is still the one held and is live,
\* and the failing site still has the job the map held for it.
C37_FailureKeepsRegistries ==
    /\ (last.sgt = "threw" /\ last.sgtAlone) =>
            /\ globalScheduleJob = last.gPre
            /\ last.gPre # 0 => Running(Reg, last.gPre)
    /\ (last.ss = "threw" /\ last.ssAlone
            /\ last.ssRet \in {"scheduleAll", "scheduleGlobalTask"}) =>
            /\ jobs[last.ssSite.id] = last.ssPre[last.ssSite.id]
            /\ last.ssPre[last.ssSite.id] # 0 => Running(Reg, last.ssPre[last.ssSite.id])

(* --------------------------- the two tiers (C38) ----------------------- *)
\* C38: while the stored global config is enabled without overrideIndividual
\* and no scheduler operation is in progress, every stored site either has
\* a live individual job or is a candidate of the global firing, never both.
C38_TiersPartition ==
    (Quiescent /\ ~StoredDisabled /\ ~StoredOverride) =>
        LET candidates == GlobalCandidates(FindFirstConfig(configTable),
                                           FindManySites(siteTable))
            isCandidate(k) == \E i \in 1..Len(candidates) : candidates[i].id = k
        IN  \A k \in StoredSites(siteTable) : (SiteJobsOf(k) # {}) <=> ~isCandidate(k)

(* ------------------------ history independence (C39) ------------------- *)
\* C39: when scheduleGlobalTask(config) has returned, the stored config
\* agreeing and no other run interleaved, the live jobs are those the stored
\* sites and the config give, whatever the registries held before: one
\* individual job for each stored site whose scheduleCron is not blank
\* unless the config is enabled with overrideIndividual, no individual job
\* for any other site id, and one global job exactly when the config is
\* enabled.
C39_HistoryIndependent ==
    (/\ last.sgt = "returned" /\ last.sgtAlone
     /\ FindFirstConfig(configTable).enabled = last.sgtCfg.enabled
     /\ FindFirstConfig(configTable).overrideIndividual = last.sgtCfg.overrideIndividual) =>
        LET cfg == last.sgtCfg
            on == cfg.id # 0 /\ cfg.enabled
            due(k) == /\ k \in StoredSites(siteTable)
                      /\ ~Blank(siteTable[k].rec.scheduleCron)
                      /\ ~(on /\ cfg.overrideIndividual)
        IN  /\ \A k \in SiteIds :
                    Cardinality(SiteJobsOf(k)) = IF due(k) THEN 1 ELSE 0
            /\ Cardinality(GlobalJobs) = IF on THEN 1 ELSE 0

(* ---------------------------- termination (C40) ------------------------ *)
\* the store operations of a firing and its notifier call return or throw
StoreAndNotifierSettle ==
    \A f \in 1..MaxFirings :
        WF_vars(\/ GlobalConfigFound(f) \/ GlobalSitesFound(f) \/ StoreReadFails(f)
                \/ (\E threw \in BOOLEAN : Notified(f, threw))
                \/ LastRunWritten(f))

\* a global firing is over: skipped, aborted in the callback's catch, or
\* run to its end with one check per candidate and lastRun written
GlobalFiringOver(f) ==
    /\ firings[f].kind = "done"
    /\ last.kind = "global"
    /\ \/ last.batch = "skipped" /\ last.calls = <<>>
       \/ last.batch = "aborted" /\ last.caught
       \/ /\ last.batch = "global"
          /\ last.calls = IdsOf(last.sites)
          /\ Len(last.outs) = Len(last.sites)
          /\ last.lastRunWrites = 1

====
